---- MODULE Spec2Model ----
(***************************************************************************)
(* Tag-based incremental synchronisation of GCP Cloud Functions and        *)
(* Storage Buckets into a property graph (cartography.intel.gcp.gcf and    *)
(* cartography.intel.gcp.storage).                                         *)
(*                                                                         *)
(* Strings are sequences of tokens, so that str.split and string           *)
(* concatenation are computed, not assumed.  Python None / Cypher null is  *)
(* the one-token string None.                                              *)
(***************************************************************************)
EXTENDS Integers, Sequences, FiniteSets, TLC

\* ------------------------------------------------------------------ bounds
MaxPages == 2   \* pages the listing API serves to one collector call
MaxRuns  == 2   \* sync invocations in one behaviour

\* ------------------------------------------------------------- vocabulary
None == <<"None">>

Scopes == {<<"a">>, <<"b">>}
\* run tags are opaque values compared for equality only: an invocation takes a
\* tag used before or the next unused one
Tags   == 1..MaxRuns
RTypes == {"gcf", "storage"}

SlashTok == "/"

\* lexicographic order of the tokens that occur in region names
TokenOrder == <<"/", "_", "a", "b", "loc", "one", "proj", "res", "two", "us-central1", "us-east1">>

Rank(t) == CHOOSE i \in 1..Len(TokenOrder) : TokenOrder[i] = t

RECURSIVE StrLess(_, _)
StrLess(s, t) ==
    IF t = <<>> THEN FALSE
    ELSE IF s = <<>> THEN TRUE
    ELSE IF Head(s) = Head(t) THEN StrLess(Tail(s), Tail(t))
    ELSE Rank(Head(s)) < Rank(Head(t))

RECURSIVE SplitAcc(_, _, _, _)
SplitAcc(s, sep, cur, acc) ==
    IF s = <<>> THEN Append(acc, cur)
    ELSE IF Head(s) = sep THEN SplitAcc(Tail(s), sep, <<>>, Append(acc, cur))
    ELSE SplitAcc(Tail(s), sep, Append(cur, Head(s)), acc)

\* str.split(sep)
Split(s, sep) == SplitAcc(s, sep, <<>>, <<>>)

\* ------------------------------------------------- what the APIs may serve
NameOne   == <<"proj", "/", "a", "/", "loc", "/", "us-central1", "/", "res", "/", "one">>
NameTwo   == <<"proj", "/", "a", "/", "loc", "/", "us-east1", "/", "res", "/", "two">>
NameShort == <<"proj", "/", "a", "/", "one">>

SaOne == <<"sa1">>

\* raw Cloud Function documents; name = None stands for a document without a name key
FunctionDocs ==
    { [name |-> NameOne,   serviceAccountEmail |-> None],
      [name |-> NameOne,   serviceAccountEmail |-> SaOne],
      [name |-> NameTwo,   serviceAccountEmail |-> None],
      [name |-> NameTwo,   serviceAccountEmail |-> SaOne],
      [name |-> NameShort, serviceAccountEmail |-> None],
      [name |-> None,      serviceAccountEmail |-> None] }

BucketX  == <<"x">>
BucketXK == <<"x", "_", "k">>
KeyK     == <<"k">>
KeyKK    == <<"k", "_", "k">>
ValV     == <<"v">>
ValW     == <<"w">>

\* raw bucket documents; labels is the dict's items in insertion order
BucketDocs ==
    { [id |-> BucketX,  projectNumber |-> <<"a">>, labels |-> <<>>],
      [id |-> BucketX,  projectNumber |-> <<"a">>, labels |-> <<[key |-> KeyK, val |-> ValV]>>],
      [id |-> BucketX,  projectNumber |-> <<"a">>, labels |-> <<[key |-> KeyKK, val |-> ValW]>>],
      [id |-> BucketXK, projectNumber |-> <<"a">>, labels |-> <<[key |-> KeyK, val |-> ValV]>>] }

\* googleapiclient HttpError: error.status, whether error.message holds
\* "API has not been used", and resp.status
HttpErrors ==
    { [status |-> "PERMISSION_DENIED",   apiNotUsed |-> FALSE, http |-> 403],
      [status |-> "FAILED_PRECONDITION", apiNotUsed |-> TRUE,  http |-> 403],
      [status |-> "NOT_FOUND",           apiNotUsed |-> FALSE, http |-> 404],
      [status |-> "UNAVAILABLE",         apiNotUsed |-> FALSE, http |-> 503] }

NoError == [status |-> "OK", apiNotUsed |-> FALSE, http |-> 200]

\* --------------------------------------------------------------- the graph
\* nodes: <<label, id>> -> properties;  rels: <<label, from, to>> -> properties
EmptyGraph == [nodes |-> <<>>, rels |-> <<>>]

Put(f, k, v) == [x \in (DOMAIN f) \cup {k} |-> IF x = k THEN v ELSE f[x]]

Drop(f, ks) == [x \in (DOMAIN f) \ ks |-> f[x]]

HasNode(g, n) == n \in DOMAIN g.nodes

HasRel(g, r) == r \in DOMAIN g.rels

ProjectNode(project_id) == <<"GCPProject", project_id>>

NodesOf(g, label) == {n \in DOMAIN g.nodes : n[1] = label}

\* DETACH DELETE of a set of nodes
DetachDelete(g, ns) ==
    [nodes |-> Drop(g.nodes, ns),
     rels  |-> Drop(g.rels, {r \in DOMAIN g.rels : r[2] \in ns \/ r[3] \in ns})]

\* ------------------------------------------------------ schema descriptors
GCPCloudFunctionSchema ==
    [label |-> "GCPCloudFunction",
     sub_resource_relationship |->
        [target_node_label |-> "GCPProject", direction |-> "OUTWARD", rel_label |-> "RESOURCE"],
     other_relationships |->
        <<[target_node_label |-> "GCPServiceAccount", direction |-> "OUTWARD", rel_label |-> "RUNS_AS"]>>]

GCPBucketLabelSchema ==
    [label |-> "GCPBucketLabel",
     sub_resource_relationship |->
        [target_node_label |-> "GCPProject", direction |-> "INWARD", rel_label |-> "RESOURCE"],
     other_relationships |-> <<>>]

GCPStorageBucketSchema ==
    [label |-> "GCPBucket",
     sub_resource_relationship |->
        [target_node_label |-> "GCPProject", direction |-> "INWARD", rel_label |-> "RESOURCE"],
     other_relationships |->
        <<[target_node_label |-> "GCPBucketLabel", direction |-> "OUTWARD", rel_label |-> "LABELED"]>>]

\* the relationship a schema draws between node n and target node t
RelKey(rel, n, t) ==
    IF rel.direction = "OUTWARD" THEN <<rel.rel_label, n, t>> ELSE <<rel.rel_label, t, n>>

\* n has the schema's scope relationship to the Project node of project_id
Attached(g, schema, n, project_id) ==
    HasRel(g, RelKey(schema.sub_resource_relationship, n, ProjectNode(project_id)))

AttachedNodes(g, schema, project_id) ==
    {n \in NodesOf(g, schema.label) : Attached(g, schema, n, project_id)}

\* ------------------------------------------------------------- collectors
\* mutant: a bare except that swallows every HttpError
GcfErrorIsHandled_Any(e) == TRUE

\* mutant: the test of the error message is dropped
GcfErrorIsHandled_StatusOnly(e) == e.status = "PERMISSION_DENIED"

\* except HttpError branch of get_gcp_cloud_functions: TRUE = return [], FALSE = raise
GcfErrorIsHandled(e) ==
    e.status = "PERMISSION_DENIED" \/ e.apiNotUsed

\* except HttpError branch of get_gcp_buckets
BucketErrorIsHandled(e) ==
    \/ e.status = "PERMISSION_DENIED" \/ e.apiNotUsed
    \/ e.http = 404

ErrorIsHandled(rtype, e) ==
    IF rtype = "gcf" THEN GcfErrorIsHandled(e) ELSE BucketErrorIsHandled(e)

\* one page of the listing: with the records key (a list) or without it
NoKey == [present |-> FALSE, items |-> <<>>]

PageOf(items) == [present |-> TRUE, items |-> items]

Pages(rtype) ==
    {NoKey, PageOf(<<>>)} \cup
    {PageOf(<<d>>) : d \in (IF rtype = "gcf" THEN FunctionDocs ELSE BucketDocs)}

\* mutant: the accumulator is assigned the page instead of extended by it
Extend_Overwrite(acc, page) == IF page.present THEN page.items ELSE acc

\* if key in response: collected.extend(response[key])
Extend(acc, page) == IF page.present THEN acc \o page.items ELSE acc

\* ------------------------------------------------ Cloud Functions: transform
ParseRegion(func_data) ==
    IF func_data.name = None THEN None
    ELSE LET parts == Split(func_data.name, SlashTok)
         IN IF Len(parts) >= 4 THEN parts[4] ELSE None

WithRegion(func_data) ==
    [name |-> func_data.name,
     serviceAccountEmail |-> func_data.serviceAccountEmail,
     region |-> ParseRegion(func_data)]

RECURSIVE InsertByRegion(_, _)
InsertByRegion(sorted, x) ==
    IF sorted = <<>> THEN <<x>>
    ELSE IF StrLess(x.region, Head(sorted).region) THEN <<x>> \o sorted
    ELSE <<Head(sorted)>> \o InsertByRegion(Tail(sorted), x)

RECURSIVE SortByRegion(_)
SortByRegion(s) ==
    IF s = <<>> THEN <<>>
    ELSE InsertByRegion(SortByRegion(SubSeq(s, 1, Len(s) - 1)), s[Len(s)])

\* list.sort compares keys with <, which raises TypeError as soon as a None takes part
SortRaises(s) == Len(s) >= 2 /\ \E i \in 1..Len(s) : s[i].region = None

transform_gcp_cloud_functions(functions) ==
    LET flat == [i \in 1..Len(functions) |-> WithRegion(functions[i])]
    IN IF SortRaises(flat)
       THEN [raised |-> TRUE, value |-> <<>>]
       ELSE [raised |-> FALSE, value |-> SortByRegion(flat)]

\* ----------------------------------------------------- Cloud Functions: load
RECURSIVE RunLength(_, _)
RunLength(data, key) ==
    IF data = <<>> \/ Head(data).region # key THEN 0
    ELSE 1 + RunLength(Tail(data), key)

\* itertools.groupby(data, key=itemgetter('region')): runs of equal keys
RECURSIVE GroupBy(_)
GroupBy(data) ==
    IF data = <<>> THEN <<>>
    ELSE LET k == Head(data).region
             n == RunLength(data, k)
         IN <<[key |-> k, items |-> SubSeq(data, 1, n)]>> \o GroupBy(SubSeq(data, n + 1, Len(data)))

\* if region:
Truthy(region) == region # None /\ region # <<>>

FunctionNode(name) == <<"GCPCloudFunction", name>>

ServiceAccountNode(email) == <<"GCPServiceAccount", email>>

FunctionProps(func_data, ProjectId, UpdateTag) ==
    [name |-> func_data.name,
     service_account_email |-> func_data.serviceAccountEmail,
     project_id |-> ProjectId,
     region |-> func_data.region,
     lastupdated |-> UpdateTag]

\* mutant: the clause also sets p.lastupdated
MergeScopeRel_TagsProject(g, f, p, UpdateTag) ==
    [nodes |-> Put(g.nodes, p, [id |-> p[2], lastupdated |-> UpdateTag]),
     rels  |-> Put(g.rels, <<"RESOURCE", f, p>>, [lastupdated |-> UpdateTag])]

\* MERGE (f)-[r_res:RESOURCE]->(p) SET r_res.lastupdated
MergeScopeRel(g, f, p, UpdateTag) ==
    [g EXCEPT !.rels = Put(@, <<"RESOURCE", f, p>>, [lastupdated |-> UpdateTag])]

\* MERGE (sa:GCPServiceAccount{id}) SET ...  MERGE (f)-[r_sa:RUNS_AS]->(sa) SET ...
MergeServiceAccount(g, f, email, UpdateTag) ==
    LET sa == ServiceAccountNode(email)
    IN IF email = None THEN g
       ELSE [nodes |-> Put(g.nodes, sa, [email |-> email, lastupdated |-> UpdateTag]),
             rels  |-> Put(g.rels, <<"RUNS_AS", f, sa>>, [lastupdated |-> UpdateTag])]

\* mutant: the relationship clauses MATCH the function node before it is MERGEd
IngestFunction_RelFirst(g, func_data, ProjectId, UpdateTag) ==
    LET f  == FunctionNode(func_data.name)
        p  == ProjectNode(ProjectId)
        g1 == IF HasNode(g, f) /\ HasNode(g, p)
              THEN MergeServiceAccount(MergeScopeRel(g, f, p, UpdateTag),
                                       f, func_data.serviceAccountEmail, UpdateTag)
              ELSE g
    IN [g1 EXCEPT !.nodes = Put(@, f, FunctionProps(func_data, ProjectId, UpdateTag))]

\* mutant: f.lastupdated is set ON CREATE only
IngestFunction_TagOnCreate(g, func_data, ProjectId, UpdateTag) ==
    LET f   == FunctionNode(func_data.name)
        p   == ProjectNode(ProjectId)
        tag == IF HasNode(g, f) THEN g.nodes[f].lastupdated ELSE UpdateTag
        g1  == [g EXCEPT !.nodes = Put(@, f, FunctionProps(func_data, ProjectId, tag))]
    IN IF ~HasNode(g1, p) THEN g1
       ELSE MergeServiceAccount(MergeScopeRel(g1, f, p, UpdateTag),
                                f, func_data.serviceAccountEmail, UpdateTag)

\* mutant: SET f.service_account_email = coalesce(func_data.serviceAccountEmail, f.service_account_email)
IngestFunction_Coalesce(g, func_data, ProjectId, UpdateTag) ==
    LET f    == FunctionNode(func_data.name)
        p    == ProjectNode(ProjectId)
        kept == IF func_data.serviceAccountEmail = None /\ HasNode(g, f)
                THEN g.nodes[f].service_account_email
                ELSE func_data.serviceAccountEmail
        g1   == [g EXCEPT !.nodes =
                    Put(@, f, [FunctionProps(func_data, ProjectId, UpdateTag)
                                  EXCEPT !.service_account_email = kept])]
    IN IF ~HasNode(g1, p) THEN g1
       ELSE MergeServiceAccount(MergeScopeRel(g1, f, p, UpdateTag),
                                f, func_data.serviceAccountEmail, UpdateTag)

\* ingest_query for one row of $FunctionList
IngestFunction(g, func_data, ProjectId, UpdateTag) ==
    LET f  == FunctionNode(func_data.name)
        p  == ProjectNode(ProjectId)
        g1 == [g EXCEPT !.nodes = Put(@, f, FunctionProps(func_data, ProjectId, UpdateTag))]
    IN IF ~HasNode(g1, p) THEN g1
       ELSE MergeServiceAccount(MergeScopeRel(g1, f, p, UpdateTag),
                                f, func_data.serviceAccountEmail, UpdateTag)

\* neo4j_session.run(ingest_query, FunctionList=..., ProjectId=..., UpdateTag=...)
RECURSIVE RunIngestQuery(_, _, _, _)
RunIngestQuery(g, FunctionList, ProjectId, UpdateTag) ==
    IF FunctionList = <<>> THEN g
    ELSE RunIngestQuery(IngestFunction(g, Head(FunctionList), ProjectId, UpdateTag),
                        Tail(FunctionList), ProjectId, UpdateTag)

\* ------------------------------------------------------ buckets: transform
UnderscoreTok == "_"

\* f"{b['id']}_{key}"
LabelId(bucket_id, key) == bucket_id \o <<UnderscoreTok>> \o key

TransformLabels(b) ==
    [i \in 1..Len(b.labels) |->
        [id |-> LabelId(b.id, b.labels[i].key),
         key |-> b.labels[i].key,
         value |-> b.labels[i].val,
         bucket_id |-> b.id,
         project_number |-> b.projectNumber]]

TransformBucket(b) ==
    LET transformed_labels == TransformLabels(b)
    IN [id |-> b.id,
        project_number |-> b.projectNumber,
        labels |-> transformed_labels,
        label_ids |-> [i \in 1..Len(transformed_labels) |-> transformed_labels[i].id]]

transform_gcp_buckets(buckets_response) ==
    [i \in 1..Len(buckets_response) |-> TransformBucket(buckets_response[i])]

RECURSIVE AllLabels(_)
AllLabels(buckets) ==
    IF buckets = <<>> THEN <<>> ELSE Head(buckets).labels \o AllLabels(Tail(buckets))

\* --------------------------------------- the graph store's batched upsert
\* properties the schema writes for one record (set_in_kwargs ones from the call)
NodeProps(schema, rec, lastupdated, project_number) ==
    IF schema.label = "GCPBucket"
    THEN [id |-> rec.id, lastupdated |-> lastupdated, project_number |-> project_number]
    ELSE [id |-> rec.id, lastupdated |-> lastupdated, key |-> rec.key, value |-> rec.value]

\* ids of the targets of the schema's secondary relationship in one record
OtherTargets(schema, rec) ==
    IF schema.label = "GCPBucket" THEN {rec.label_ids[i] : i \in 1..Len(rec.label_ids)} ELSE {}

\* creates the node if absent, overwrites its attributes, and draws each
\* relationship whose target node is matched
LoadRecord(g, schema, rec, lastupdated, project_number) ==
    LET n     == <<schema.label, rec.id>>
        p     == ProjectNode(project_number)
        sub   == schema.sub_resource_relationship
        g1    == [g EXCEPT !.nodes = Put(@, n, NodeProps(schema, rec, lastupdated, project_number))]
        scope == IF HasNode(g1, p) THEN {RelKey(sub, n, p)} ELSE {}
        other == UNION { {RelKey(schema.other_relationships[i], n,
                                 <<schema.other_relationships[i].target_node_label, t>>) :
                            t \in {x \in OtherTargets(schema, rec) :
                                     HasNode(g1, <<schema.other_relationships[i].target_node_label, x>>)}} :
                         i \in 1..Len(schema.other_relationships) }
        new   == scope \cup other
    IN [g1 EXCEPT !.rels =
            [r \in (DOMAIN g1.rels) \cup new |->
                IF r \in new THEN [lastupdated |-> lastupdated] ELSE g1.rels[r]]]

\* cartography.client.core.tx.load(neo4j_session, schema, records, **kwargs)
RECURSIVE Load(_, _, _, _, _)
Load(g, schema, records, lastupdated, project_number) ==
    IF records = <<>> THEN g
    ELSE Load(LoadRecord(g, schema, Head(records), lastupdated, project_number),
              schema, Tail(records), lastupdated, project_number)

\* --------------------------------------------- the graph store's cleanup job
StaleNodes(g, schema, project_id, UPDATE_TAG) ==
    {n \in AttachedNodes(g, schema, project_id) : g.nodes[n].lastupdated # UPDATE_TAG}

\* relationships of the schema drawn from nodes attached to the scope
SchemaRels(g, schema, project_id) ==
    {r \in DOMAIN g.rels :
        \E n \in AttachedNodes(g, schema, project_id) :
            \/ r = RelKey(schema.sub_resource_relationship, n, ProjectNode(project_id))
            \/ \E i \in 1..Len(schema.other_relationships) :
                 LET o == schema.other_relationships[i]
                 IN /\ r[1] = o.rel_label
                    /\ IF o.direction = "OUTWARD"
                       THEN r[2] = n /\ r[3][1] = o.target_node_label
                       ELSE r[3] = n /\ r[2][1] = o.target_node_label}

\* GraphJob.from_node_schema(schema, params).run(neo4j_session)
CleanupJob(g, schema, project_id, UPDATE_TAG) ==
    LET g1 == DetachDelete(g, StaleNodes(g, schema, project_id, UPDATE_TAG))
        staleRels == {r \in SchemaRels(g1, schema, project_id) :
                        g1.rels[r].lastupdated # UPDATE_TAG}
    IN [g1 EXCEPT !.rels = Drop(@, staleRels)]

\* ------------------------------------------------------------------- state
Procs == {1, 2}     \* sync invocations that may be in flight; Spec runs them one at a time on 1

VARIABLES
    graph,          \* the graph store
    pc,             \* where each invocation of sync stands
    run,            \* its arguments: rtype, project_id, update_tag, common_job_parameters
    npages,         \* pages requested so far by its collector
    collected,      \* collected_functions / collected_buckets, the collector's accumulator
    functions_data, \* what the collector returned to sync
    fault,          \* the error that ended the collector or the invocation
    todo,           \* graph writes load has still to issue
    written,        \* nodes of the synchronised type upserted by the invocation
    pre,            \* the graph when the invocation started
    prev,           \* the invocation before it: its outcome, arguments and written nodes
    phases,         \* the network and graph calls the invocation has made, in order
    runs,           \* invocations started
    served,         \* the pages the listing API has served to the invocation's collector, in order
    entry           \* where the entry point main() stands, and the credentials it obtained

vars == <<graph, pc, run, npages, collected, functions_data, fault, todo, written, pre, prev,
          phases, runs, served, entry>>

\* main() of run_gcf_sync has not been called
NotCalled == [at |-> "idle", credentials |-> None, update_tag |-> 0]

NoRun == [rtype |-> "none", project_id |-> None, update_tag |-> 0,
          common_job_parameters |-> [UPDATE_TAG |-> 0]]

TypeError  == [status |-> "TypeError",  apiNotUsed |-> FALSE, http |-> 0]
WriteError == [status |-> "WriteError", apiNotUsed |-> FALSE, http |-> 0]

\* "done" and "failed": sync has just returned, resp. raised; "was_done" and "was_failed":
\* the caller has gone on since
Returned(p) == pc[p] \in {"idle", "done", "failed", "was_done", "was_failed"}

Outcome(at) ==
    IF at \in {"done", "was_done"} THEN "done"
    ELSE IF at \in {"failed", "was_failed"} THEN "failed"
    ELSE "idle"

GoneOn(at) ==
    IF at = "done" THEN "was_done" ELSE IF at = "failed" THEN "was_failed" ELSE at

Init ==
    /\ graph = EmptyGraph
    /\ pc = [p \in Procs |-> "idle"]
    /\ run = [p \in Procs |-> NoRun]
    /\ npages = [p \in Procs |-> 0]
    /\ collected = [p \in Procs |-> <<>>]
    /\ functions_data = [p \in Procs |-> <<>>]
    /\ fault = [p \in Procs |-> NoError]
    /\ todo = [p \in Procs |-> <<>>]
    /\ written = [p \in Procs |-> {}]
    /\ pre = [p \in Procs |-> EmptyGraph]
    /\ prev = [p \in Procs |-> [status |-> "idle", run |-> NoRun, written |-> {}]]
    /\ phases = [p \in Procs |-> <<>>]
    /\ runs = 0
    /\ served = [p \in Procs |-> <<>>]
    /\ entry = NotCalled

\* the caller's MERGE (p:GCPProject{id: $PROJECT_ID})
EnsureProject(project_id) ==
    /\ \A p \in Procs : Returned(p)
    /\ runs < MaxRuns
    /\ ~HasNode(graph, ProjectNode(project_id))
    /\ graph' = [graph EXCEPT !.nodes = Put(@, ProjectNode(project_id), [id |-> project_id])]
    /\ pc' = [p \in Procs |-> GoneOn(pc[p])]
    /\ UNCHANGED <<run, npages, collected, functions_data, fault, todo, written, pre, prev,
                   phases, runs, served, entry>>

\* sync(neo4j_session, client, project_id, update_tag, common_job_parameters) is called
StartSync(p, rtype, project_id, update_tag) ==
    /\ Returned(p)
    /\ runs < MaxRuns
    /\ update_tag <= runs + 1
    /\ pc' = [pc EXCEPT ![p] = "collect"]
    /\ run' = [run EXCEPT ![p] = [rtype |-> rtype, project_id |-> project_id,
                                  update_tag |-> update_tag,
                                  common_job_parameters |-> [UPDATE_TAG |-> update_tag]]]
    /\ npages' = [npages EXCEPT ![p] = 0]
    /\ collected' = [collected EXCEPT ![p] = <<>>]
    /\ functions_data' = [functions_data EXCEPT ![p] = <<>>]
    /\ fault' = [fault EXCEPT ![p] = NoError]
    /\ todo' = [todo EXCEPT ![p] = <<>>]
    /\ written' = [written EXCEPT ![p] = {}]
    /\ pre' = [pre EXCEPT ![p] = graph]
    /\ prev' = [prev EXCEPT ![p] = [status |-> Outcome(pc[p]), run |-> run[p], written |-> written[p]]]
    /\ phases' = [phases EXCEPT ![p] = <<>>]
    /\ runs' = runs + 1
    /\ served' = [served EXCEPT ![p] = <<>>]
    /\ UNCHANGED <<graph, entry>>

\* mutant: sync returns early on an empty collection
AfterCollect_ReturnsEarly(data) == IF data # <<>> THEN "transform" ELSE "done"

\* where sync goes once the collector has returned functions_data
AfterCollect(data) == IF data # <<>> THEN "transform" ELSE "cleanup"

\* request.execute() serves a page; list_next gives the next request (more) or None
FetchPage(p, page, more) ==
    /\ pc[p] = "collect"
    /\ npages[p] < MaxPages
    /\ more => npages[p] + 1 < MaxPages
    /\ page \in Pages(run[p].rtype)
    /\ npages' = [npages EXCEPT ![p] = @ + 1]
    /\ collected' = [collected EXCEPT ![p] = Extend(@, page)]
    /\ phases' = [phases EXCEPT ![p] = Append(@, "fetch")]
    /\ IF more
       THEN UNCHANGED <<pc, functions_data>>
       ELSE /\ functions_data' = [functions_data EXCEPT ![p] = collected'[p]]
            /\ pc' = [pc EXCEPT ![p] = AfterCollect(collected'[p])]
    /\ served' = [served EXCEPT ![p] = Append(@, page)]
    /\ UNCHANGED <<graph, run, fault, todo, written, pre, prev, runs, entry>>

\* mutant: the except branch returns the records of the pages already fetched
HandledResult_Partial(acc) == acc

\* "return []" of the except branch, whatever the loop has accumulated in acc
HandledResult(acc) == <<>>

\* request.execute() raises HttpError e: the except branch returns [] or re-raises
FetchFails(p, e) ==
    /\ pc[p] = "collect"
    /\ npages[p] < MaxPages
    /\ npages' = [npages EXCEPT ![p] = @ + 1]
    /\ fault' = [fault EXCEPT ![p] = e]
    /\ phases' = [phases EXCEPT ![p] = Append(@, "fetch")]
    /\ IF ErrorIsHandled(run[p].rtype, e)
       THEN /\ functions_data' = [functions_data EXCEPT ![p] = HandledResult(collected[p])]
            /\ pc' = [pc EXCEPT ![p] = AfterCollect(HandledResult(collected[p]))]
       ELSE /\ pc' = [pc EXCEPT ![p] = "failed"]
            /\ UNCHANGED functions_data
    /\ UNCHANGED <<graph, run, collected, todo, written, pre, prev, runs, served, entry>>

\* the session.run calls load_gcp_cloud_functions issues: one per group with a truthy region
RECURSIVE FunctionWrites(_)
FunctionWrites(groups) ==
    IF groups = <<>> THEN <<>>
    ELSE (IF Truthy(Head(groups).key)
          THEN <<[kind |-> "functions", items |-> Head(groups).items]>>
          ELSE <<>>) \o FunctionWrites(Tail(groups))

\* mutant: the buckets are loaded before their labels
BucketWrites_ParentFirst(buckets) ==
    <<[kind |-> "buckets", items |-> buckets]>> \o
    (IF AllLabels(buckets) # <<>>
     THEN <<[kind |-> "labels", items |-> AllLabels(buckets)]>>
     ELSE <<>>)

\* the load calls load_gcp_buckets issues: the labels first, if any, then the buckets
BucketWrites(buckets) ==
    (IF AllLabels(buckets) # <<>>
     THEN <<[kind |-> "labels", items |-> AllLabels(buckets)]>>
     ELSE <<>>) \o <<[kind |-> "buckets", items |-> buckets]>>

AfterTransform(writes) == IF writes # <<>> THEN "load" ELSE "cleanup"

\* transform_* and the entry of load_*
Transform(p) ==
    /\ pc[p] = "transform"
    /\ phases' = [phases EXCEPT ![p] = Append(@, "transform")]
    /\ IF run[p].rtype = "gcf"
       THEN LET r == transform_gcp_cloud_functions(functions_data[p])
            IN IF r.raised
               THEN /\ pc' = [pc EXCEPT ![p] = "failed"]
                    /\ fault' = [fault EXCEPT ![p] = TypeError]
                    /\ UNCHANGED todo
               ELSE /\ todo' = [todo EXCEPT ![p] = FunctionWrites(GroupBy(r.value))]
                    /\ pc' = [pc EXCEPT ![p] = AfterTransform(todo'[p])]
                    /\ UNCHANGED fault
       ELSE /\ todo' = [todo EXCEPT ![p] = BucketWrites(transform_gcp_buckets(functions_data[p]))]
            /\ pc' = [pc EXCEPT ![p] = AfterTransform(todo'[p])]
            /\ UNCHANGED fault
    /\ UNCHANGED <<graph, run, npages, collected, functions_data, written, pre, prev, runs, served, entry>>

\* one graph write of load_*
ExecWrite(g, w, project_id, update_tag) ==
    IF w.kind = "functions" THEN RunIngestQuery(g, w.items, project_id, update_tag)
    ELSE IF w.kind = "labels" THEN Load(g, GCPBucketLabelSchema, w.items, update_tag, project_id)
    ELSE Load(g, GCPStorageBucketSchema, w.items, update_tag, project_id)

WrittenBy(w) ==
    IF w.kind = "functions" THEN {FunctionNode(w.items[i].name) : i \in 1..Len(w.items)}
    ELSE IF w.kind = "labels" THEN {<<"GCPBucketLabel", w.items[i].id>> : i \in 1..Len(w.items)}
    ELSE {<<"GCPBucket", w.items[i].id>> : i \in 1..Len(w.items)}

\* mutant: cleanup is called inside the loop over the writes
AfterWrite_CleanupInLoop(rest) == "cleanup"

\* mutant: cleanup is left out after a load
AfterWrite_NoCleanup(rest) == IF rest # <<>> THEN "load" ELSE "done"

\* where sync goes after a write of load_*: the next write, or cleanup
AfterWrite(rest) == IF rest # <<>> THEN "load" ELSE "cleanup"

LoadStep(p) ==
    /\ pc[p] = "load"
    /\ todo[p] # <<>>
    /\ graph' = ExecWrite(graph, Head(todo[p]), run[p].project_id, run[p].update_tag)
    /\ written' = [written EXCEPT ![p] = @ \cup WrittenBy(Head(todo[p]))]
    /\ todo' = [todo EXCEPT ![p] = Tail(@)]
    /\ pc' = [pc EXCEPT ![p] = AfterWrite(todo'[p])]
    /\ phases' = [phases EXCEPT ![p] = Append(@, "write")]
    /\ UNCHANGED <<run, npages, collected, functions_data, fault, pre, prev, runs, served, entry>>

\* mutant: load catches the exception of the write and sync goes on to cleanup
WriteFails_Swallowed(p) ==
    /\ pc[p] = "load"
    /\ todo[p] # <<>>
    /\ pc' = [pc EXCEPT ![p] = "cleanup"]
    /\ fault' = [fault EXCEPT ![p] = WriteError]
    /\ phases' = [phases EXCEPT ![p] = Append(@, "write_failed")]
    /\ UNCHANGED <<graph, run, npages, collected, functions_data, todo, written, pre, prev, runs, served, entry>>

\* the graph store rejects the write: the exception leaves sync
WriteFails(p) ==
    /\ pc[p] = "load"
    /\ todo[p] # <<>>
    /\ pc' = [pc EXCEPT ![p] = "failed"]
    /\ fault' = [fault EXCEPT ![p] = WriteError]
    /\ phases' = [phases EXCEPT ![p] = Append(@, "write_failed")]
    /\ UNCHANGED <<graph, run, npages, collected, functions_data, todo, written, pre, prev, runs, served, entry>>

\* mutant: cleanup_job_params = common_job_parameters, without the copy
ParamsAfterCopy_Aliased(params, project_id) ==
    [UPDATE_TAG |-> params.UPDATE_TAG, PROJECT_ID |-> project_id]

\* the caller's common_job_parameters once sync has added the scope id to its copy
ParamsAfterCopy(params, project_id) == params

\* cleanup_job_params = common_job_parameters.copy(); cleanup_job_params[...] = project_id
CleanupJobParams(p) ==
    [UPDATE_TAG |-> run[p].common_job_parameters.UPDATE_TAG, PROJECT_ID |-> run[p].project_id]

FirstCleanupSchema(rtype) ==
    IF rtype = "gcf" THEN GCPCloudFunctionSchema ELSE GCPStorageBucketSchema

AfterFirstCleanup(rtype) == IF rtype = "gcf" THEN "done" ELSE "cleanup_labels"

\* cleanup_gcp_cloud_functions, and the first job of cleanup_gcp_buckets
Cleanup(p) ==
    /\ pc[p] = "cleanup"
    /\ graph' = CleanupJob(graph, FirstCleanupSchema(run[p].rtype),
                           CleanupJobParams(p).PROJECT_ID, CleanupJobParams(p).UPDATE_TAG)
    /\ pc' = [pc EXCEPT ![p] = AfterFirstCleanup(run[p].rtype)]
    /\ phases' = [phases EXCEPT ![p] = Append(@, "cleanup")]
    /\ run' = [run EXCEPT ![p].common_job_parameters = ParamsAfterCopy(@, run[p].project_id)]
    /\ UNCHANGED <<npages, collected, functions_data, fault, todo, written, pre, prev, runs, served, entry>>

\* the second job of cleanup_gcp_buckets
CleanupLabels(p) ==
    /\ pc[p] = "cleanup_labels"
    /\ graph' = CleanupJob(graph, GCPBucketLabelSchema,
                           CleanupJobParams(p).PROJECT_ID, CleanupJobParams(p).UPDATE_TAG)
    /\ pc' = [pc EXCEPT ![p] = "done"]
    /\ phases' = [phases EXCEPT ![p] = Append(@, "cleanup")]
    /\ UNCHANGED <<run, npages, collected, functions_data, fault, todo, written, pre, prev, runs, served, entry>>

\* the invocation slot the sequential specification uses
Main == CHOOSE p \in Procs : \A q \in Procs : p <= q

Next ==
    \/ \E s \in Scopes : EnsureProject(s)
    \/ \E rtype \in RTypes, s \in Scopes, t \in Tags : StartSync(Main, rtype, s, t)
    \/ \E page \in Pages("gcf") \cup Pages("storage"), more \in BOOLEAN : FetchPage(Main, page, more)
    \/ \E e \in HttpErrors : FetchFails(Main, e)
    \/ Transform(Main)
    \/ LoadStep(Main)
    \/ WriteFails(Main)
    \/ Cleanup(Main)
    \/ CleanupLabels(Main)

Spec == Init /\ [][Next]_vars

\* a network call of the collector's loop: request.execute() returns or raises
Collecting ==
    \/ \E page \in Pages("gcf") \cup Pages("storage"), more \in BOOLEAN : FetchPage(Main, page, more)
    \/ \E e \in HttpErrors : FetchFails(Main, e)

\* the listing calls are blocking and return: the collector's loop goes on
SpecFair == Spec /\ WF_vars(Collecting)

\* ------------------------------------------------ the entry point main()
GCP_PROJECT_ID == <<"a">>

Credentials == <<"credentials">>

\* google.auth.default() finds credentials or raises DefaultCredentialsError, which
\* get_gcp_credentials catches: it returns the credentials or None and never raises
get_gcp_credentials(found) == IF found THEN Credentials ELSE None

\* credentials = get_gcp_credentials(): no exception reaches main's except branch
GetCredentials(found) ==
    /\ entry.at = "idle"
    /\ \A p \in Procs : pc[p] = "idle"
    /\ entry' = [entry EXCEPT !.at = "build", !.credentials = get_gcp_credentials(found)]
    /\ UNCHANGED <<graph, pc, run, npages, collected, functions_data, fault, todo, written, pre,
                   prev, phases, runs, served>>

\* functions_client = _get_gcf_resource(credentials); driver = ...: with credentials
\* None the builder returns a client or raises, and the exception leaves main
BuildClients(raises) ==
    /\ entry.at = "build"
    /\ raises => entry.credentials = None
    /\ entry' = [entry EXCEPT !.at = IF raises THEN "crashed" ELSE "merge"]
    /\ UNCHANGED <<graph, pc, run, npages, collected, functions_data, fault, todo, written, pre,
                   prev, phases, runs, served>>

\* update_tag = int(time.time() * 1000); MERGE (p:GCPProject{id}) SET p.lastupdated
MainMergeProject(update_tag) ==
    /\ entry.at = "merge"
    /\ update_tag <= runs + 1
    /\ graph' = [graph EXCEPT !.nodes = Put(@, ProjectNode(GCP_PROJECT_ID),
                                            [id |-> GCP_PROJECT_ID, lastupdated |-> update_tag])]
    /\ entry' = [entry EXCEPT !.at = "sync", !.update_tag = update_tag]
    /\ UNCHANGED <<pc, run, npages, collected, functions_data, fault, todo, written, pre,
                   prev, phases, runs, served>>

\* gcf.sync(session, functions_client, GCP_PROJECT_ID, update_tag, common_job_parameters)
MainSync ==
    /\ entry.at = "sync"
    /\ pc[Main] = "idle"
    /\ StartSync(Main, "gcf", GCP_PROJECT_ID, entry.update_tag)

\* sync returns and main ends, or the exception of sync leaves main
MainReturns ==
    /\ entry.at = "sync"
    /\ pc[Main] \in {"done", "failed"}
    /\ entry' = [entry EXCEPT !.at = IF pc[Main] = "done" THEN "returned" ELSE "crashed"]
    /\ pc' = [pc EXCEPT ![Main] = GoneOn(@)]
    /\ UNCHANGED <<graph, run, npages, collected, functions_data, fault, todo, written, pre,
                   prev, phases, runs, served>>

NextMain ==
    \/ \E found \in BOOLEAN : GetCredentials(found)
    \/ \E raises \in BOOLEAN : BuildClients(raises)
    \/ \E t \in Tags : MainMergeProject(t)
    \/ MainSync
    \/ \E page \in Pages("gcf"), more \in BOOLEAN : FetchPage(Main, page, more)
    \/ \E e \in HttpErrors : FetchFails(Main, e)
    \/ Transform(Main)
    \/ LoadStep(Main)
    \/ WriteFails(Main)
    \/ Cleanup(Main)
    \/ MainReturns

SpecMain == Init /\ [][NextMain]_vars

\* ------------------------------------------- invocations run side by side
\* an orchestrator starts sync while another invocation may be in flight; invocations
\* in flight together have different scopes and different run tags
\* the second slot is taken only while the first is in flight
StartConcurrent(p, rtype, project_id, update_tag) ==
    /\ p # Main => ~Returned(Main)
    /\ \A q \in Procs \ {p} :
          ~Returned(q) => run[q].project_id # project_id /\ run[q].update_tag # update_tag
    /\ StartSync(p, rtype, project_id, update_tag)

\* every network call and every graph statement is one atomic step of its invocation;
\* a listing is served in one page (pagination touches no shared state)
NextConcurrent ==
    \/ \E s \in Scopes : EnsureProject(s)
    \/ \E p \in Procs, rtype \in RTypes, s \in Scopes, t \in Tags : StartConcurrent(p, rtype, s, t)
    \/ \E p \in Procs, page \in Pages("gcf") \cup Pages("storage") : FetchPage(p, page, FALSE)
    \/ \E p \in Procs, e \in HttpErrors : FetchFails(p, e)
    \/ \E p \in Procs : Transform(p)
    \/ \E p \in Procs : LoadStep(p)
    \/ \E p \in Procs : WriteFails(p)
    \/ \E p \in Procs : Cleanup(p)
    \/ \E p \in Procs : CleanupLabels(p)

SpecConcurrent == Init /\ [][NextConcurrent]_vars

\* ------------------------------------------------------------------ claims
\* the schemas whose nodes an invocation for rtype synchronises
SchemasOf(rtype) ==
    IF rtype = "gcf" THEN {GCPCloudFunctionSchema}
    ELSE IF rtype = "storage" THEN {GCPStorageBucketSchema, GCPBucketLabelSchema}
    ELSE {}

\* the nodes the records of a collector result stand for
ObservedNodes(rtype, data) ==
    IF rtype = "gcf"
    THEN {FunctionNode(data[i].name) : i \in 1..Len(data)}
    ELSE {<<"GCPBucket", data[i].id>> : i \in 1..Len(data)} \cup
         UNION { {<<"GCPBucketLabel", LabelId(data[i].id, data[i].labels[j].key)>> :
                    j \in 1..Len(data[i].labels)} : i \in 1..Len(data) }

Incident(g, n) == {r \in DOMAIN g.rels : r[2] = n \/ r[3] = n}

Finished(p) == pc[p] \in {"done", "failed"}

\* p's invocation is running or has just returned
Live(p) == pc[p] \notin {"idle", "was_done", "was_failed"}

\* p's invocation follows a completed invocation for the same (resource type, scope)
FollowsRun(p) ==
    /\ prev[p].status = "done"
    /\ prev[p].run.rtype = run[p].rtype
    /\ prev[p].run.project_id = run[p].project_id

FreshTag(p) == prev[p].run.update_tag # run[p].update_tag

\* C1: when the listing of a second sync (fresh tag) fails with a PERMISSION_DENIED
\* error, every node the first sync loaded still exists after the second sync.
C1_PermissionDeniedKeepsNodes ==
    \A p \in Procs :
        (Finished(p) /\ FollowsRun(p) /\ FreshTag(p) /\ fault[p].status = "PERMISSION_DENIED")
            => \A n \in prev[p].written : HasNode(graph, n)

\* C2: after the second of two consecutive successful syncs of one (resource type,
\* scope) with different tags, a node of the first run that the second run did not
\* observe is gone with its relationships, and a re-observed node carries the new tag.
C2_ConvergenceOnDisappearance ==
    \A p \in Procs :
        (pc[p] = "done" /\ FollowsRun(p) /\ FreshTag(p))
            => \A n \in prev[p].written :
                  IF n \in ObservedNodes(run[p].rtype, functions_data[p])
                  THEN HasNode(graph, n) /\ graph.nodes[n].lastupdated = run[p].update_tag
                  ELSE ~HasNode(graph, n) /\ Incident(graph, n) = {}

\* C3: a sync whose collector returned no record skips transform and load and still
\* runs cleanup: no node of the type attached to the scope keeps another tag, and the
\* attached nodes that had another tag before the sync are gone.
C3_CleanupOnEmptyCollection ==
    \A p \in Procs :
        (pc[p] = "done" /\ functions_data[p] = <<>>)
            => /\ written[p] = {}
               /\ \A i \in 1..Len(phases[p]) : phases[p][i] \in {"fetch", "cleanup"}
               /\ \E i \in 1..Len(phases[p]) : phases[p][i] = "cleanup"
               /\ \A schema \in SchemasOf(run[p].rtype) :
                    /\ \A n \in AttachedNodes(graph, schema, run[p].project_id) :
                          graph.nodes[n].lastupdated = run[p].update_tag
                    /\ \A n \in AttachedNodes(pre[p], schema, run[p].project_id) :
                          pre[p].nodes[n].lastupdated # run[p].update_tag => ~HasNode(graph, n)

C3_Witness ==
    \E p \in Procs :
        /\ pc[p] = "done" /\ functions_data[p] = <<>> /\ fault[p] = NoError
        /\ run[p].rtype = "storage"
        /\ \E n \in AttachedNodes(pre[p], GCPBucketLabelSchema, run[p].project_id) :
              ~HasNode(graph, n)
        /\ \E n \in AttachedNodes(pre[p], GCPStorageBucketSchema, run[p].project_id) :
              ~HasNode(graph, n)

\* C4: a listing failure that is not classified leaves sync as an error and the graph
\* as it was when the invocation started: no upsert and no cleanup was issued.
C4_UnclassifiedFailureWritesNothing ==
    \A p \in Procs :
        (Live(p) /\ fault[p] \in HttpErrors /\ ~(fault[p].status = "PERMISSION_DENIED" \/ fault[p].apiNotUsed
                                       \/ fault[p].http = 404))
            => /\ pc[p] = "failed"
               /\ graph = pre[p]
               /\ \A i \in 1..Len(phases[p]) : phases[p][i] = "fetch"

C4_Witness ==
    \E p \in Procs :
        /\ pc[p] = "failed" /\ fault[p].status = "UNAVAILABLE"
        /\ npages[p] = MaxPages /\ collected[p] # <<>>
        /\ \E schema \in SchemasOf(run[p].rtype) :
              \E n \in AttachedNodes(graph, schema, run[p].project_id) :
                  graph.nodes[n].lastupdated # run[p].update_tag

\* C5: in every collector a 404 / Not Found listing failure makes the collector
\* return an empty sequence; it is not propagated.
C5_NotFoundReturnsEmpty ==
    \A p \in Procs :
        (Live(p) /\ fault[p] \in HttpErrors /\ fault[p].http = 404)
            => pc[p] # "failed" /\ functions_data[p] = <<>>

\* C6: in every collector a PERMISSION_DENIED failure, or one whose message says the
\* API has not been used, on whichever page, makes the collector return an empty
\* sequence; it is not propagated.
C6_DeniedOrDisabledReturnsEmpty ==
    \A p \in Procs :
        (Live(p) /\ (fault[p].status = "PERMISSION_DENIED" \/ fault[p].apiNotUsed))
            => pc[p] # "failed" /\ functions_data[p] = <<>>

C6_Witness ==
    \E p \in Procs :
        /\ fault[p].apiNotUsed
        /\ npages[p] = MaxPages /\ collected[p] # <<>>
        /\ functions_data[p] = <<>>
        /\ pc[p] = "done"

Global == <<"global">>

Malformed(d) == ParseRegion(d) = None

\* C7: a collected record whose identity key has no partition component gets the
\* partition "global" and is upserted by the same sync.
C7_MalformedIsUpsertedAsGlobal ==
    \A p \in Procs :
        (pc[p] = "done" /\ run[p].rtype = "gcf")
            => \A i \in 1..Len(functions_data[p]) :
                  LET d == functions_data[p][i]
                  IN (Malformed(d) /\ d.name # None)
                        => /\ HasNode(graph, FunctionNode(d.name))
                           /\ graph.nodes[FunctionNode(d.name)].region = Global

Mixed(data) ==
    /\ \E i \in 1..Len(data) : Malformed(data[i])
    /\ \E i \in 1..Len(data) : ~Malformed(data[i])

\* C8: a collector result that mixes well-formed records and records with an
\* unparsable identity key is transformed and loaded without raising, and every
\* well-formed record is upserted.
C8_MalformedDoesNotAbortBatch ==
    \A p \in Procs :
        (Live(p) /\ run[p].rtype = "gcf" /\ Mixed(functions_data[p]))
            => /\ fault[p] # TypeError
               /\ pc[p] \in {"cleanup", "done"}
                     => \A i \in 1..Len(functions_data[p]) :
                           ~Malformed(functions_data[p][i])
                               => FunctionNode(functions_data[p][i].name) \in written[p]

\* the scope relationships of node n under its schema
ScopeRels(g, schema, n) ==
    {r \in DOMAIN g.rels :
        \E s \in Scopes : r = RelKey(schema.sub_resource_relationship, n, ProjectNode(s))}

AllSchemas == {GCPCloudFunctionSchema, GCPStorageBucketSchema, GCPBucketLabelSchema}

\* the scope the caller supplied when node n was last written (label nodes keep none)
CallerScopes(g, n) ==
    IF n[1] = "GCPCloudFunction" THEN {g.nodes[n].project_id}
    ELSE IF n[1] = "GCPBucket" THEN {g.nodes[n].project_number}
    ELSE Scopes

\* C9: in every reachable state every synchronised node has exactly one scope
\* relationship, and it connects the node to the Project node the caller named.
C9_ExactlyOneScopeRel ==
    \A schema \in AllSchemas :
        \A n \in NodesOf(graph, schema.label) :
            /\ Cardinality(ScopeRels(graph, schema, n)) = 1
            /\ \E s \in CallerScopes(graph, n) : Attached(graph, schema, n, s)

\* C10: after a sync that completes without error, every node of the type attached to
\* the scope, and every relationship of those nodes that the type's schema draws,
\* carries the tag of that run.
C10_TagMonotonicity ==
    \A p \in Procs :
        pc[p] = "done"
            => \A schema \in SchemasOf(run[p].rtype) :
                  \A n \in AttachedNodes(graph, schema, run[p].project_id) :
                      /\ graph.nodes[n].lastupdated = run[p].update_tag
                      /\ \A r \in Incident(graph, n) :
                            (\/ r = RelKey(schema.sub_resource_relationship, n,
                                           ProjectNode(run[p].project_id))
                             \/ \E i \in 1..Len(schema.other_relationships) :
                                  r[1] = schema.other_relationships[i].rel_label)
                                => graph.rels[r].lastupdated = run[p].update_tag

C10_Witness ==
    \E p \in Procs :
        /\ pc[p] = "done" /\ written[p] # {}
        /\ prev[p].status = "done" /\ prev[p].written # {}
        /\ FreshTag(p)
        /\ \E schema \in SchemasOf(run[p].rtype) :
              \E n \in AttachedNodes(graph, schema, run[p].project_id) :
                  /\ HasNode(pre[p], n)
                  /\ pre[p].nodes[n].lastupdated # run[p].update_tag
                  /\ \E r \in Incident(pre[p], n) :
                        r[1] # "RESOURCE" /\ ~HasRel(graph, r)

\* p takes a cleanup step
CleanupStepOf(p) == pc[p] \in {"cleanup", "cleanup_labels"} /\ pc'[p] # pc[p]

\* the schema of the cleanup job p is about to run
CleanupSchema(p) ==
    IF pc[p] = "cleanup" THEN FirstCleanupSchema(run[p].rtype) ELSE GCPBucketLabelSchema

\* n is attached, under the schema of its label, to a scope other than project_id
AttachedElsewhere(g, n, project_id) ==
    \E schema \in AllSchemas :
        /\ schema.label = n[1]
        /\ \E s \in Scopes \ {project_id} : Attached(g, schema, n, s)

\* C11: a cleanup step for scope A and resource type T deletes only nodes of T's
\* schema, and deletes no node that is attached to a scope other than A, whatever
\* tags the nodes of the other scopes carry.
C11_ScopeIsolation ==
    [][\A p \in Procs :
          CleanupStepOf(p)
              => \A n \in (DOMAIN graph.nodes) \ (DOMAIN graph'.nodes) :
                    /\ n[1] = CleanupSchema(p).label
                    /\ ~AttachedElsewhere(graph, n, run[p].project_id)]_vars

\* the graph writes sync issues for a collector result (none when transform raises)
WritesOf(rtype, data) ==
    IF rtype = "gcf"
    THEN LET r == transform_gcp_cloud_functions(data)
         IN IF r.raised THEN <<>> ELSE FunctionWrites(GroupBy(r.value))
    ELSE BucketWrites(transform_gcp_buckets(data))

RECURSIVE ExecWrites(_, _, _, _)
ExecWrites(g, writes, project_id, update_tag) ==
    IF writes = <<>> THEN g
    ELSE ExecWrites(ExecWrite(g, Head(writes), project_id, update_tag),
                    Tail(writes), project_id, update_tag)

\* transform and upsert of a collector result into g
Upsert(g, rtype, project_id, update_tag, data) ==
    ExecWrites(g, WritesOf(rtype, data), project_id, update_tag)

\* p's load has issued its last write and cleanup has not run yet
Loaded(p) == pc[p] = "cleanup" /\ functions_data[p] # <<>>

\* C12: the graph after transform and upsert of a collector result is what these
\* phases make of the graph the invocation started with, and running them once more
\* with the same result, scope and run tag gives the same nodes, relationships and
\* attributes, tags included.
C12_IdempotentSameTag ==
    \A p \in Procs :
        Loaded(p)
            => LET once == Upsert(pre[p], run[p].rtype, run[p].project_id, run[p].update_tag,
                                  functions_data[p])
               IN /\ graph = once
                  /\ Upsert(once, run[p].rtype, run[p].project_id, run[p].update_tag,
                            functions_data[p]) = once

C12_Witness ==
    \E p \in Procs :
        /\ Loaded(p) /\ graph # pre[p]
        /\ \E n \in written[p] : \E r \in Incident(graph, n) : r[1] \in {"RUNS_AS", "LABELED"}
        /\ \E n \in written[p] : HasNode(pre[p], n)

\* the attributes of a node or relationship other than its tag
Untagged(props) == [k \in (DOMAIN props) \ {"lastupdated"} |-> props[k]]

RECURSIVE WrittenByAll(_)
WrittenByAll(writes) ==
    IF writes = <<>> THEN {} ELSE WrittenBy(Head(writes)) \cup WrittenByAll(Tail(writes))

\* C13: running transform and upsert again with the same records and scope and
\* another run tag leaves the set of nodes and the set of relationships as they are;
\* attributes other than the tag keep their values, what changes carried the first
\* tag, and every node the upsert writes carries the new tag.
C13_IdempotentNewTag ==
    \A p \in Procs :
        Loaded(p)
            => \A t \in Tags \ {run[p].update_tag} :
                  LET again == Upsert(graph, run[p].rtype, run[p].project_id, t, functions_data[p])
                  IN /\ DOMAIN again.nodes = DOMAIN graph.nodes
                     /\ DOMAIN again.rels = DOMAIN graph.rels
                     /\ \A n \in DOMAIN graph.nodes :
                           /\ Untagged(again.nodes[n]) = Untagged(graph.nodes[n])
                           /\ again.nodes[n] # graph.nodes[n]
                                 => graph.nodes[n].lastupdated = run[p].update_tag
                     /\ \A r \in DOMAIN graph.rels :
                           again.rels[r] # graph.rels[r]
                               => graph.rels[r].lastupdated = run[p].update_tag
                     /\ \A n \in WrittenByAll(WritesOf(run[p].rtype, functions_data[p])) :
                           again.nodes[n].lastupdated = t

C13_Witness ==
    \E p \in Procs :
        /\ Loaded(p) /\ written[p] # {}
        /\ \E n \in written[p] : \E r \in Incident(graph, n) : r[1] \in {"RUNS_AS", "LABELED"}
        /\ \E n \in DOMAIN graph.nodes :
              n \notin written[p] /\ n[1] = "GCPBucket" /\ graph.nodes[n].lastupdated # run[p].update_tag

\* the identity keys of the records of a collector result
IdentityKeys(rtype, data) ==
    IF rtype = "gcf"
    THEN {data[i].name : i \in {j \in 1..Len(data) : data[j].name # None}}
    ELSE {data[i].id : i \in 1..Len(data)}

\* g holds no node of a synchronised type
NoResources(g) == \A schema \in AllSchemas : NodesOf(g, schema.label) = {}

\* p's invocation started on a graph with its scope's Project node and no resource node
InitialSync(p) == HasNode(pre[p], ProjectNode(run[p].project_id)) /\ NoResources(pre[p])

\* C14: after a successful sync into a graph holding the scope's Project node and no
\* resource nodes, the ids of the resource nodes are the identity keys the collector
\* returned, each node has the RESOURCE relationship to the caller's Project node, and
\* a function node's region is the location segment of its identity key.
C14_InitialSyncResult ==
    \A p \in Procs :
        (pc[p] = "done" /\ InitialSync(p))
            => LET schema == FirstCleanupSchema(run[p].rtype)
               IN /\ {n[2] : n \in NodesOf(graph, schema.label)} =
                        IdentityKeys(run[p].rtype, functions_data[p])
                  /\ \A n \in NodesOf(graph, schema.label) :
                        /\ Attached(graph, schema, n, run[p].project_id)
                        /\ (run[p].rtype = "gcf" /\ Len(Split(n[2], SlashTok)) >= 4)
                              => graph.nodes[n].region = Split(n[2], SlashTok)[4]

LabelNode(bucket_id, key) == <<"GCPBucketLabel", LabelId(bucket_id, key)>>

\* the (bucket, label) pairs of a bucket listing, as indices
LabelPairs(data) ==
    UNION { {<<i, j>> : j \in 1..Len(data[i].labels)} : i \in 1..Len(data) }

\* C15: after transform_gcp_buckets and load_gcp_buckets every key of every bucket's
\* labels map has its GCPBucketLabel node, with the id derived from (bucket id, key)
\* and that key and value, a LABELED relationship from its bucket and a RESOURCE
\* relationship to the scope's Project node; the load creates no other label node and
\* no other LABELED relationship.
C15_DerivedLabelNodes ==
    \A p \in Procs :
        (Loaded(p) /\ run[p].rtype = "storage")
            => LET data     == functions_data[p]
                   expected == {LabelNode(data[x[1]].id, data[x[1]].labels[x[2]].key) :
                                   x \in LabelPairs(data)}
                   linked   == {<<"LABELED", <<"GCPBucket", data[x[1]].id>>,
                                  LabelNode(data[x[1]].id, data[x[1]].labels[x[2]].key)>> :
                                   x \in LabelPairs(data)}
               IN /\ \A x \in LabelPairs(data) :
                        LET b == data[x[1]]
                            n == LabelNode(b.id, b.labels[x[2]].key)
                        IN /\ HasNode(graph, n)
                           /\ graph.nodes[n].key = b.labels[x[2]].key
                           /\ graph.nodes[n].value = b.labels[x[2]].val
                           /\ HasRel(graph, <<"LABELED", <<"GCPBucket", b.id>>, n>>)
                           /\ Attached(graph, GCPBucketLabelSchema, n, run[p].project_id)
                  /\ NodesOf(graph, "GCPBucketLabel") \ NodesOf(pre[p], "GCPBucketLabel")
                        \subseteq expected
                  /\ {r \in (DOMAIN graph.rels) \ (DOMAIN pre[p].rels) : r[1] = "LABELED"}
                        \subseteq linked

\* C16: when a batched write of load fails, sync ends with that failure: the failed
\* write is the last graph call of the invocation, the writes after it are not
\* issued, cleanup is not run, and nothing the graph held at the start is deleted.
C16_WriteFailureIsFatal ==
    \A p \in Procs :
        (Live(p) /\ fault[p] = WriteError)
            => /\ pc[p] = "failed"
               /\ todo[p] # <<>>
               /\ phases[p][Len(phases[p])] = "write_failed"
               /\ \A i \in 1..Len(phases[p]) : phases[p][i] # "cleanup"
               /\ DOMAIN pre[p].nodes \subseteq DOMAIN graph.nodes
               /\ DOMAIN pre[p].rels \subseteq DOMAIN graph.rels

C16_Witness ==
    \E p \in Procs :
        /\ pc[p] = "failed" /\ fault[p] = WriteError
        /\ written[p] # {} /\ Len(todo[p]) = 1
        /\ \E schema \in SchemasOf(run[p].rtype) :
              StaleNodes(graph, schema, run[p].project_id, run[p].update_tag) # {}

\* the node labels a sync for rtype owns: its schema's and its derived label nodes'
OwnLabels(rtype) == {schema.label : schema \in SchemasOf(rtype)}

\* C17: while a sync for resource type T runs, and when it has returned, every node
\* with a label T does not own is as it was when the invocation started: the sync
\* created no such node and overwrote no tag of such a node.  In particular the
\* Cloud Functions sync creates GCPCloudFunction nodes only.
C17_LifecycleOwnership ==
    \A p \in Procs :
        Live(p)
            => \A n \in DOMAIN graph.nodes :
                  n[1] \notin OwnLabels(run[p].rtype)
                      => HasNode(pre[p], n) /\ graph.nodes[n] = pre[p].nodes[n]

\* what sync makes of graph g when it runs alone and its collector returns data
SyncAlone(g, rtype, project_id, update_tag, data) ==
    LET g1 == IF data = <<>> THEN g ELSE Upsert(g, rtype, project_id, update_tag, data)
        g2 == CleanupJob(g1, FirstCleanupSchema(rtype), project_id, update_tag)
    IN IF AfterFirstCleanup(rtype) = "done" THEN g2
       ELSE CleanupJob(g2, GCPBucketLabelSchema, project_id, update_tag)

\* the part of g that belongs to a scope: the nodes of the type attached to it and
\* their relationships, with their attributes
ScopePart(g, rtype, project_id) ==
    LET ns == UNION {AttachedNodes(g, schema, project_id) : schema \in SchemasOf(rtype)}
        rs == UNION {Incident(g, n) : n \in ns}
    IN [nodes |-> [n \in ns |-> g.nodes[n]], rels |-> [r \in rs |-> g.rels[r]]]

\* the records the two invocations collected name different resources
DisjointResults(p, q) ==
    ObservedNodes(run[p].rtype, functions_data[p]) \cap
        ObservedNodes(run[q].rtype, functions_data[q]) = {}

\* p and q are invocations in flight together, or just returned, for different scopes
\* and with different run tags
SideBySide(p, q) ==
    /\ p # q /\ Live(p) /\ Live(q)
    /\ run[p].project_id # run[q].project_id
    /\ run[p].update_tag # run[q].update_tag

\* the nodes and relationships of g that carry the tag t
Tagged(g, t) ==
    [nodes |-> {n \in DOMAIN g.nodes :
                   "lastupdated" \in DOMAIN g.nodes[n] /\ g.nodes[n].lastupdated = t},
     rels  |-> {r \in DOMAIN g.rels : g.rels[r].lastupdated = t}]

\* C18: when two syncs for different scopes, each with its own run tag, run side by
\* side and collect different resources, then once both have completed the part of
\* the graph that belongs to each scope is what that sync alone makes of the graph
\* it started on, and no step of one invocation deletes or re-tags a node or
\* relationship that carries the other invocation's tag.
C18_ConcurrentIndependentSyncs ==
    /\ [](\A p \in Procs, q \in Procs :
            (SideBySide(p, q) /\ pc[p] = "done" /\ pc[q] = "done" /\ DisjointResults(p, q))
                => ScopePart(graph, run[p].rtype, run[p].project_id) =
                      ScopePart(SyncAlone(pre[p], run[p].rtype, run[p].project_id,
                                          run[p].update_tag, functions_data[p]),
                                run[p].rtype, run[p].project_id))
    /\ [][\A p \in Procs, q \in Procs :
            (SideBySide(p, q) /\ DisjointResults(p, q) /\ pc'[p] # pc[p])
                => /\ Tagged(graph, run[q].update_tag).nodes
                         \subseteq Tagged(graph', run[q].update_tag).nodes
                   /\ Tagged(graph, run[q].update_tag).rels
                         \subseteq Tagged(graph', run[q].update_tag).rels]_vars

\* the phases of sync in their order
PhaseOrder == <<{"fetch"}, {"transform"}, {"write", "write_failed"}, {"cleanup"}>>

PhaseOf(call) == CHOOSE i \in 1..Len(PhaseOrder) : call \in PhaseOrder[i]

\* C19: the calls of one sync invocation come in the order collect, transform, upsert,
\* cleanup; the graph is as it was at the start as long as the collector has not
\* returned, and a cleanup job runs only when load has no write left to issue.
C19_PhaseOrdering ==
    \A p \in Procs :
        Live(p)
            => /\ \A i \in 1..Len(phases[p]), j \in 1..Len(phases[p]) :
                     i < j => PhaseOf(phases[p][i]) <= PhaseOf(phases[p][j])
               /\ pc[p] = "collect" => graph = pre[p]
               /\ (\E i \in 1..Len(phases[p]) : phases[p][i] = "cleanup") => todo[p] = <<>>
               /\ pc[p] \in {"cleanup", "cleanup_labels"} => todo[p] = <<>>

C19_Witness ==
    \E p \in Procs :
        /\ pc[p] = "done"
        /\ phases[p] = <<"fetch", "fetch", "transform", "write", "write", "cleanup", "cleanup">>
        /\ graph # pre[p]

\* the next write of p's load is the GCPBucket write
BucketWriteNext(p) == pc[p] = "load" /\ todo[p] # <<>> /\ Head(todo[p]).kind = "buckets"

\* C20: when load_gcp_buckets issues the GCPBucket write, it is the last write of
\* the load and every label id in the label_ids of every bucket of the batch
\* exists as a GCPBucketLabel node.
C20_LabelPassPrecedesParent ==
    \A p \in Procs :
        BucketWriteNext(p)
            => /\ Len(todo[p]) = 1
               /\ \A i \in 1..Len(Head(todo[p]).items) :
                     LET b == Head(todo[p]).items[i]
                     IN \A j \in 1..Len(b.label_ids) :
                           HasNode(graph, <<"GCPBucketLabel", b.label_ids[j]>>)

C20_Witness ==
    \E p \in Procs :
        /\ BucketWriteNext(p)
        /\ \E i \in 1..Len(Head(todo[p]).items) :
              LET b == Head(todo[p]).items[i]
              IN \E j \in 1..Len(b.label_ids) :
                    /\ ~HasNode(pre[p], <<"GCPBucketLabel", b.label_ids[j]>>)
                    /\ HasNode(graph, <<"GCPBucketLabel", b.label_ids[j]>>)

\* the records a page carries: those under its records key, none without the key
RecordsOf(page) == IF page.present THEN page.items ELSE <<>>

RECURSIVE Concatenation(_)
Concatenation(pages) ==
    IF pages = <<>> THEN <<>> ELSE RecordsOf(Head(pages)) \o Concatenation(Tail(pages))

\* no request of p's collector has failed
NoPageFailed(p) == Live(p) /\ fault[p] \in {NoError, TypeError, WriteError}

\* C21: as long as no page fails the collector has requested exactly the pages
\* served so far, one per request, and holds the concatenation of their records in
\* page order; what it returns is the concatenation of the records of all pages,
\* pages without a records key adding nothing; and a collector that is running
\* returns eventually, the chain of pages being finite.
C21_Pagination ==
    /\ [](\A p \in Procs :
            NoPageFailed(p)
                => /\ npages[p] = Len(served[p])
                   /\ pc[p] = "collect" => collected[p] = Concatenation(served[p])
                   /\ pc[p] # "collect" => functions_data[p] = Concatenation(served[p]))
    /\ \A p \in Procs : (pc[p] = "collect") ~> (pc[p] # "collect")

C21_Witness ==
    \E p \in Procs :
        /\ NoPageFailed(p) /\ pc[p] = "transform"
        /\ Len(served[p]) = MaxPages
        /\ served[p][1] = NoKey
        /\ functions_data[p] # <<>>

\* the partition keys of a collector result
PartitionKeys(data) == {ParseRegion(data[i]) : i \in 1..Len(data)}

RECURSIVE OfPartition(_, _)
\* the records of data with partition key k, normalised, in their collected order
OfPartition(data, k) ==
    IF data = <<>> THEN <<>>
    ELSE (IF ParseRegion(Head(data)) = k THEN <<WithRegion(Head(data))>> ELSE <<>>)
         \o OfPartition(Tail(data), k)

\* p's transform has just run on a non-empty Cloud Functions listing
Transformed(p) ==
    /\ Live(p) /\ run[p].rtype = "gcf"
    /\ phases[p] # <<>> /\ phases[p][Len(phases[p])] = "transform"

\* C22: after transform of any collected sequence the load has exactly one batched
\* write per partition key of the input, and the write of a key holds exactly the
\* records with that key, in their collected order.
C22_PartitionGrouping ==
    \A p \in Procs :
        Transformed(p)
            => /\ pc[p] # "failed"
               /\ Len(todo[p]) = Cardinality(PartitionKeys(functions_data[p]))
               /\ \A k \in PartitionKeys(functions_data[p]) :
                     \E i \in 1..Len(todo[p]) :
                         todo[p][i].items = OfPartition(functions_data[p], k)

\* the RUNS_AS relationships the records of a listing name: those with a target
TargetRels(data) ==
    {<<"RUNS_AS", FunctionNode(data[i].name), ServiceAccountNode(data[i].serviceAccountEmail)>> :
        i \in {j \in 1..Len(data) : data[j].serviceAccountEmail # None}}

\* C23: after the upsert of a Cloud Functions listing every record with an identity
\* key has its node and its scope relationship, every record with a
\* serviceAccountEmail has its RUNS_AS relationship to that account, and the upsert
\* created no RUNS_AS relationship and no GCPServiceAccount node other than those
\* named by a record with a serviceAccountEmail.
C23_NullTargetIsSkipped ==
    \A p \in Procs :
        (Loaded(p) /\ run[p].rtype = "gcf")
            => LET data == functions_data[p]
               IN /\ \A i \in 1..Len(data) :
                        LET d == data[i]
                            f == FunctionNode(d.name)
                        IN d.name # None
                              => /\ HasNode(graph, f)
                                 /\ Attached(graph, GCPCloudFunctionSchema, f, run[p].project_id)
                                 /\ d.serviceAccountEmail # None
                                       => HasRel(graph, <<"RUNS_AS", f,
                                                          ServiceAccountNode(d.serviceAccountEmail)>>)
                  /\ {r \in (DOMAIN graph.rels) \ (DOMAIN pre[p].rels) : r[1] = "RUNS_AS"}
                        \subseteq TargetRels(data)
                  /\ NodesOf(graph, "GCPServiceAccount") \ NodesOf(pre[p], "GCPServiceAccount")
                        \subseteq {r[3] : r \in TargetRels(data)}

\* the last record of a Cloud Functions listing with the given name
LatestFunction(data, name) ==
    data[CHOOSE i \in 1..Len(data) :
            /\ data[i].name = name
            /\ \A j \in (i + 1)..Len(data) : data[j].name # name]

\* the last (bucket, label) pair of a bucket listing that gives the label id
LatestLabel(data, id) ==
    CHOOSE x \in LabelPairs(data) :
        /\ LabelId(data[x[1]].id, data[x[1]].labels[x[2]].key) = id
        /\ \A y \in LabelPairs(data) :
              (LabelId(data[y[1]].id, data[y[1]].labels[y[2]].key) = id /\ y # x)
                  => (y[1] < x[1] \/ (y[1] = x[1] /\ y[2] < x[2]))

\* the nodes p's load wrote that the graph held when the invocation started
Rewritten(p) == {n \in written[p] : HasNode(pre[p], n)}

\* C24: after an upsert, a node that existed before and was observed again has, for
\* each attribute, the value of the latest record that names it; an attribute the
\* latest record does not carry is null on the node, whatever an earlier run set.
C24_AttributesOverwritten ==
    \A p \in Procs :
        Loaded(p)
            => \A n \in Rewritten(p) :
                  LET data == functions_data[p]
                  IN IF n[1] = "GCPCloudFunction"
                     THEN LET d == LatestFunction(data, n[2])
                          IN graph.nodes[n] =
                                [name |-> d.name,
                                 service_account_email |-> d.serviceAccountEmail,
                                 project_id |-> run[p].project_id,
                                 region |-> Split(d.name, SlashTok)[4],
                                 lastupdated |-> run[p].update_tag]
                     ELSE IF n[1] = "GCPBucketLabel"
                     THEN LET x == LatestLabel(data, n[2])
                          IN graph.nodes[n] =
                                [id |-> n[2],
                                 key |-> data[x[1]].labels[x[2]].key,
                                 value |-> data[x[1]].labels[x[2]].val,
                                 lastupdated |-> run[p].update_tag]
                     ELSE graph.nodes[n] =
                             [id |-> n[2], project_number |-> run[p].project_id,
                              lastupdated |-> run[p].update_tag]

C24_Witness ==
    \E p \in Procs :
        /\ Loaded(p)
        /\ \E n \in Rewritten(p) :
              /\ n[1] = "GCPCloudFunction"
              /\ pre[p].nodes[n].service_account_email # None
              /\ graph.nodes[n].service_account_email = None
        /\ \E n \in Rewritten(p) : pre[p].nodes[n].lastupdated # run[p].update_tag

\* main() has been called and get_gcp_credentials reported a failure
CredentialsFailed == entry.at # "idle" /\ entry.credentials = None

\* C25: when get_gcp_credentials reports a failure, main builds no API client, calls
\* no sync, issues no graph write and no cleanup, and does not crash.
C25_CredentialFailureSkipsSync ==
    CredentialsFailed
        => /\ entry.at = "build"
           /\ graph = EmptyGraph
           /\ \A p \in Procs : pc[p] = "idle" /\ phases[p] = <<>>

\* p's collector has returned to sync, after its last page or from its except branch
CollectorReturned(p) ==
    /\ Live(p) /\ pc[p] # "collect"
    /\ fault[p] \in HttpErrors => ErrorIsHandled(run[p].rtype, fault[p])

\* C26: a collector that returns normally returns the concatenation of the records of
\* all the pages it was served, or the empty sequence, never a strict non-empty
\* prefix: after a classified error, on a later page too, the result is empty.
C26_AllOrNothing ==
    \A p \in Procs :
        CollectorReturned(p)
            => /\ functions_data[p] \in {Concatenation(served[p]), <<>>}
               /\ fault[p] \in HttpErrors => functions_data[p] = <<>>

C26_Witness ==
    \E p \in Procs :
        /\ CollectorReturned(p) /\ fault[p] \in HttpErrors
        /\ Concatenation(served[p]) # <<>>
        /\ functions_data[p] = <<>>

\* transform_gcp_buckets has run on the listing p's collector returned
BucketsTransformed(p) ==
    /\ Live(p) /\ run[p].rtype = "storage"
    /\ \E i \in 1..Len(phases[p]) : phases[p][i] = "transform"

\* C27: the labels transform_gcp_buckets derives from two distinct (bucket id, label
\* key) pairs of one listing have distinct ids, so no two labels collapse into one
\* GCPBucketLabel node.
C27_LabelIdentityInjective ==
    \A p \in Procs :
        BucketsTransformed(p)
            => LET labels == AllLabels(transform_gcp_buckets(functions_data[p]))
               IN \A i, j \in 1..Len(labels) :
                     <<labels[i].bucket_id, labels[i].key>> # <<labels[j].bucket_id, labels[j].key>>
                        => labels[i].id # labels[j].id

\* the GCPProject nodes of g with their attributes
ProjectsOf(g) ==
    [n \in {m \in DOMAIN g.nodes : m[1] = "GCPProject"} |-> g.nodes[n]]

\* C28: a sync run leaves the GCPProject nodes as it found them, none created,
\* deleted or re-tagged, and leaves the caller's common_job_parameters as they were
\* passed: the scope id is added to a copy.
C28_ScopeAndParametersUnchanged ==
    \A p \in Procs :
        Live(p)
            => /\ ProjectsOf(graph) = ProjectsOf(pre[p])
               /\ run[p].common_job_parameters = [UPDATE_TAG |-> run[p].update_tag]

C28_Witness ==
    \E p \in Procs :
        /\ pc[p] = "done" /\ graph # pre[p]
        /\ \E n \in written[p] :
              HasRel(graph, <<"RESOURCE", n, ProjectNode(run[p].project_id)>>)
        /\ \E n \in DOMAIN pre[p].nodes : ~HasNode(graph, n)

====
